---- MODULE Spec2Model ----
(***************************************************************************)
(* Model of the slab agent: the natural-language parameter extractors of   *)
(* parsing.py, the Materials Project wrapper of tools/materials_project.py *)
(* and the orchestration of SlabAgent.run in agent.py.                     *)
(*                                                                         *)
(* Text is a sequence of one-character strings.  Two characters outside    *)
(* ASCII are written by name: "Ang" is the angstrom sign ("ang" its lower  *)
(* case) and "times" the multiplication sign.  A decimal number is a       *)
(* record [n, d] that stands for n / d with d a power of ten.              *)
(***************************************************************************)
EXTENDS Integers, Sequences, FiniteSets, TLC

\* Python's None where a text or a match is expected: no text, no match
None == <<>>

(***************************************************************************)
(* Character classes of Python's re and str, over the model's alphabet.    *)
(***************************************************************************)
DigitSeq == <<"0", "1", "2", "3", "4", "5", "6", "7", "8", "9">>
UpperSeq == <<"A", "B", "C", "D", "E", "F", "G", "H", "I", "J", "K", "L", "M",
              "N", "O", "P", "Q", "R", "S", "T", "U", "V", "W", "X", "Y", "Z">>
LowerSeq == <<"a", "b", "c", "d", "e", "f", "g", "h", "i", "j", "k", "l", "m",
              "n", "o", "p", "q", "r", "s", "t", "u", "v", "w", "x", "y", "z">>

Range(s) == {s[i] : i \in DOMAIN s}

Digits == Range(DigitSeq)
Uppers == Range(UpperSeq)
Lowers == Range(LowerSeq)

IsDigit(c) == c \in Digits
IsUpper(c) == c \in Uppers
IsLetter(c) == c \in Uppers \cup Lowers
IsAlnum(c) == IsLetter(c) \/ IsDigit(c)
\* \w: the angstrom sign is a letter of Unicode, though not of [A-Za-z]
IsWord(c) == IsAlnum(c) \/ c \in {"_", "Ang", "ang"}
IsSpace(c) == c = " "

\* int() of one decimal digit
DigitVal(c) == (CHOOSE i \in DOMAIN DigitSeq : DigitSeq[i] = c) - 1

\* str.lower() of one character
LowerChar(c) ==
    IF c \in Uppers THEN LowerSeq[CHOOSE i \in DOMAIN UpperSeq : UpperSeq[i] = c]
    ELSE IF c = "Ang" THEN "ang"
    ELSE c

\* str.lower()
Lower(s) == [i \in DOMAIN s |-> LowerChar(s[i])]

RECURSIVE Strip(_)
\* str.strip()
Strip(s) ==
    IF s = <<>> THEN s
    ELSE IF IsSpace(s[1]) THEN Strip(Tail(s))
    ELSE IF IsSpace(s[Len(s)]) THEN Strip(SubSeq(s, 1, Len(s) - 1))
    ELSE s

RECURSIVE Cat(_)
\* the concatenation of a sequence of texts
Cat(ss) == IF ss = <<>> THEN <<>> ELSE Head(ss) \o Cat(Tail(ss))

\* the end of the maximal run of characters of the class S that starts at i
\* (i - 1 when text[i] is not in S): a greedy S* of the regex engine
RunEnd(text, i, S) ==
    LET stops == {j \in i..Len(text) : text[j] \notin S}
    IN  IF stops = {} THEN Len(text)
        ELSE (CHOOSE j \in stops : \A k \in stops : j <= k) - 1

\* text[i..] starts with the literal lit, case-insensitively (re.IGNORECASE)
LitAt(text, i, lit) ==
    /\ i >= 1
    /\ i + Len(lit) - 1 <= Len(text)
    /\ \A k \in 1..Len(lit) : LowerChar(text[i + k - 1]) = lit[k]

\* \b at the gap before position i (1..Len+1)
Boundary(text, i) ==
    LET before == i > 1 /\ IsWord(text[i - 1])
        after == i <= Len(text) /\ IsWord(text[i])
    IN  before # after

Min(S) == CHOOSE x \in S : \A y \in S : x <= y

RECURSIVE StrToInt(_)
\* int() of a string of decimal digits
StrToInt(s) ==
    IF s = <<>> THEN 0
    ELSE 10 * StrToInt(SubSeq(s, 1, Len(s) - 1)) + DigitVal(s[Len(s)])

RECURSIVE Pow10(_)
Pow10(k) == IF k = 0 THEN 1 ELSE 10 * Pow10(k - 1)

Spaces == {" "}
Alnums == Uppers \cup Lowers \cup Digits

RECURSIVE NormDec(_)
\* a decimal in lowest terms of ten, so that equal numbers are equal records
NormDec(x) ==
    IF x.d > 1 /\ x.n % 10 = 0 THEN NormDec([n |-> x.n \div 10, d |-> x.d \div 10])
    ELSE x

\* float() of <digits> or <digits>.<digits>
DecOf(ip, fp) == NormDec([n |-> StrToInt(ip \o fp), d |-> Pow10(Len(fp))])

\* float("nan"): every comparison with it is False, every product with it is it
NaN == [n |-> 0, d |-> 0]

DecLess(x, y) == x.n * y.d < y.n * x.d
DecLeq(x, y) == x # NaN /\ y # NaN /\ x.n * y.d <= y.n * x.d
DecMul(x, y) == NormDec([n |-> x.n * y.n, d |-> x.d * y.d])

\* the text matched by \d+(?:\.\d+)? at i, as [ip, fp, end]; text[i] is a digit
NumberAt(text, i) ==
    LET e1 == RunEnd(text, i, Digits)
        hasFrac == /\ e1 + 2 <= Len(text)
                   /\ text[e1 + 1] = "."
                   /\ IsDigit(text[e1 + 2])
        e2 == IF hasFrac THEN RunEnd(text, e1 + 2, Digits) ELSE e1
    IN  [ip |-> SubSeq(text, i, e1),
         fp |-> IF hasFrac THEN SubSeq(text, e1 + 2, e2) ELSE <<>>,
         end |-> e2]

\* no match of a number
NoNumber == [ip |-> <<>>, fp |-> <<>>, end |-> 0]

(***************************************************************************)
(* parsing.py                                                              *)
(***************************************************************************)
DEFAULT_MILLER == <<1, 0, 0>>
DEFAULT_LAYERS == 6
DEFAULT_VACUUM == [n |-> 15, d |-> 1]
DEFAULT_SUPERCELL == <<1, 1>>

Str_vacuum == <<"v", "a", "c", "u", "u", "m">>
Str_layer == <<"l", "a", "y", "e", "r">>
Str_repeat == <<"r", "e", "p", "e", "a", "t">>
Str_mp == <<"m", "p", "-">>

STOPWORDS ==
    {<<"c", "r", "e", "a", "t", "e">>,
     <<"m", "a", "k", "e">>,
     <<"b", "u", "i", "l", "d">>,
     <<"a">>,
     <<"a", "n">>,
     <<"t", "h", "e">>,
     <<"w", "i", "t", "h">>,
     <<"a", "n", "d">>,
     <<"f", "o", "r">>,
     <<"s", "u", "r", "f", "a", "c", "e">>,
     <<"s", "l", "a", "b">>,
     <<"s", "u", "p", "e", "r", "c", "e", "l", "l">>,
     Str_vacuum,
     <<"l", "a", "y", "e", "r", "s">>,
     Str_layer, Str_repeat,
     <<"o", "f">>,
     <<"t", "o">>}

RECURSIVE SplitWs(_)
\* str.split(): the maximal runs of non-whitespace characters
SplitWs(s) ==
    IF s = <<>> THEN <<>>
    ELSE IF IsSpace(s[1]) THEN SplitWs(Tail(s))
    ELSE LET e == RunEnd(s, 1, Range(s) \ Spaces)
         IN  <<SubSeq(s, 1, e)>> \o SplitWs(SubSeq(s, e + 1, Len(s)))

\* int(p) succeeds: an optional minus sign and one or more digits
IsIntLiteral(p) ==
    LET ds == IF p # <<>> /\ p[1] = "-" THEN Tail(p) ELSE p
    IN  ds # <<>> /\ \A i \in DOMAIN ds : IsDigit(ds[i])

\* int(p) of such a literal
IntOf(p) == IF p[1] = "-" THEN 0 - StrToInt(Tail(p)) ELSE StrToInt(p)

MillerClass == Digits \cup {"-", ",", " "}

\* re.search(r"\(\s*([-\d,\s]+)\s*\)", text): the (open, close) positions of
\* the leftmost match, or None
MillerParenSearch(text) ==
    LET starts == {i \in 1..Len(text) :
                     /\ text[i] = "("
                     /\ LET e == RunEnd(text, i + 1, MillerClass)
                        IN  e >= i + 1 /\ e < Len(text) /\ text[e + 1] = ")"}
    IN  IF starts = {} THEN None
        ELSE LET i == Min(starts)
             IN  <<i, RunEnd(text, i + 1, MillerClass) + 1>>

\* re.search(r"\b(\d{3})\b", text): the leftmost matched token, or None
BareCompactSearch(text) ==
    LET starts == {i \in 1..(Len(text) - 2) :
                     /\ IsDigit(text[i]) /\ IsDigit(text[i + 1]) /\ IsDigit(text[i + 2])
                     /\ Boundary(text, i) /\ Boundary(text, i + 3)}
    IN  IF starts = {} THEN None
        ELSE SubSeq(text, Min(starts), Min(starts) + 2)

DigitWise(tok) == <<DigitVal(tok[1]), DigitVal(tok[2]), DigitVal(tok[3])>>

MillerFallback(text) ==
    LET m2 == BareCompactSearch(text)
    IN  IF m2 # None THEN DigitWise(m2) ELSE DEFAULT_MILLER

parse_miller(text) ==
    LET m == MillerParenSearch(text)
    IN  IF m = None THEN MillerFallback(text)
        ELSE LET group == SubSeq(text, m[1] + 1, m[2] - 1)
                 inner == [i \in DOMAIN group |-> IF group[i] = "," THEN " " ELSE group[i]]
                 parts == SplitWs(inner)
             IN  IF Len(parts) = 3
                 THEN IF \A k \in 1..3 : IsIntLiteral(parts[k])
                      THEN <<IntOf(parts[1]), IntOf(parts[2]), IntOf(parts[3])>>
                      ELSE MillerFallback(text)
                 ELSE IF /\ Len(parts) = 1
                         /\ Len(parts[1]) = 3
                         /\ \A k \in 1..3 : IsDigit(parts[1][k])
                      THEN DigitWise(parts[1])
                      ELSE MillerFallback(text)

\* r"(\d+)\s*layers?": the digits of the leftmost match, or None
LayersBeforeSearch(text) ==
    LET starts == {i \in 1..Len(text) :
                     /\ IsDigit(text[i])
                     /\ LitAt(text, RunEnd(text, RunEnd(text, i, Digits) + 1, Spaces) + 1,
                              Str_layer)}
    IN  IF starts = {} THEN None
        ELSE SubSeq(text, Min(starts), RunEnd(text, Min(starts), Digits))

\* the first position after "layer" and an optional "s" at i
AfterLayers(text, i) ==
    IF i + 5 <= Len(text) /\ LowerChar(text[i + 5]) = "s" THEN i + 6 ELSE i + 5

\* r"layers?\s*(\d+)": the digits of the leftmost match, or None
LayersAfterSearch(text) ==
    LET numAt(i) == RunEnd(text, AfterLayers(text, i), Spaces) + 1
        starts == {i \in 1..Len(text) :
                     /\ LitAt(text, i, Str_layer)
                     /\ numAt(i) <= Len(text)
                     /\ IsDigit(text[numAt(i)])}
    IN  IF starts = {} THEN None
        ELSE LET k == numAt(Min(starts))
             IN  SubSeq(text, k, RunEnd(text, k, Digits))

\* parse_layers without its second pattern
parse_layers_first_pattern_only(text) ==
    LET m == LayersBeforeSearch(text)
    IN  IF m # None THEN StrToInt(m) ELSE DEFAULT_LAYERS

parse_layers(text) ==
    LET m == LayersBeforeSearch(text)
        m2 == LayersAfterSearch(text)
    IN  IF m # None THEN StrToInt(m)
        ELSE IF m2 # None THEN StrToInt(m2)
        ELSE DEFAULT_LAYERS

AngstromChars == {"Ang", "ang", "A", "a"}

\* r"(\d+(?:\.\d+)?)\s*(?:Å|A)\s*vacuum": the number of the leftmost match
VacuumBeforeSearch(text) ==
    LET unitAt(i) == RunEnd(text, NumberAt(text, i).end + 1, Spaces) + 1
        starts == {i \in 1..Len(text) :
                     /\ IsDigit(text[i])
                     /\ unitAt(i) <= Len(text)
                     /\ text[unitAt(i)] \in AngstromChars
                     /\ LitAt(text, RunEnd(text, unitAt(i) + 1, Spaces) + 1, Str_vacuum)}
    IN  IF starts = {} THEN NoNumber ELSE NumberAt(text, Min(starts))

\* r"vacuum\s*(\d+(?:\.\d+)?)": the number of the leftmost match
VacuumAfterSearch(text) ==
    LET numAt(i) == RunEnd(text, i + 6, Spaces) + 1
        starts == {i \in 1..Len(text) :
                     /\ LitAt(text, i, Str_vacuum)
                     /\ numAt(i) <= Len(text)
                     /\ IsDigit(text[numAt(i)])}
    IN  IF starts = {} THEN NoNumber ELSE NumberAt(text, numAt(Min(starts)))

parse_vacuum(text) ==
    LET m == VacuumBeforeSearch(text)
        m2 == VacuumAfterSearch(text)
    IN  IF m # NoNumber THEN DecOf(m.ip, m.fp)
        ELSE IF m2 # NoNumber THEN DecOf(m2.ip, m2.fp)
        ELSE DEFAULT_VACUUM

TimesChars == {"x", "X", "times"}

\* r"(\d+)\s*[x×]\s*(\d+)": the two digit groups of the leftmost match
SupercellTimesSearch(text) ==
    LET xAt(i) == RunEnd(text, RunEnd(text, i, Digits) + 1, Spaces) + 1
        numAt(i) == RunEnd(text, xAt(i) + 1, Spaces) + 1
        starts == {i \in 1..Len(text) :
                     /\ IsDigit(text[i])
                     /\ xAt(i) <= Len(text)
                     /\ text[xAt(i)] \in TimesChars
                     /\ numAt(i) <= Len(text)
                     /\ IsDigit(text[numAt(i)])}
    IN  IF starts = {} THEN None
        ELSE LET i == Min(starts)
             IN  <<SubSeq(text, i, RunEnd(text, i, Digits)),
                   SubSeq(text, numAt(i), RunEnd(text, numAt(i), Digits))>>

\* r"repeat\s+(\d+)\s+(\d+)": the two digit groups of the leftmost match
SupercellRepeatSearch(text) ==
    LET n1(i) == RunEnd(text, i + 6, Spaces) + 1
        e1(i) == RunEnd(text, n1(i), Digits)
        n2(i) == RunEnd(text, e1(i) + 1, Spaces) + 1
        starts == {i \in 1..Len(text) :
                     /\ LitAt(text, i, Str_repeat)
                     /\ n1(i) > i + 6
                     /\ n1(i) <= Len(text)
                     /\ IsDigit(text[n1(i)])
                     /\ n2(i) > e1(i) + 1
                     /\ n2(i) <= Len(text)
                     /\ IsDigit(text[n2(i)])}
    IN  IF starts = {} THEN None
        ELSE LET i == Min(starts)
             IN  <<SubSeq(text, n1(i), e1(i)),
                   SubSeq(text, n2(i), RunEnd(text, n2(i), Digits))>>

parse_supercell(text) ==
    LET m == SupercellTimesSearch(text)
        m2 == SupercellRepeatSearch(text)
    IN  IF m # None THEN <<StrToInt(m[1]), StrToInt(m[2])>>
        ELSE IF m2 # None THEN <<StrToInt(m2[1]), StrToInt(m2[2])>>
        ELSE DEFAULT_SUPERCELL

\* re.search(r"\bmp-\d+\b", text, re.IGNORECASE): the matched text, or None
parse_mp_id(text) ==
    LET starts == {i \in 1..Len(text) :
                     /\ LitAt(text, i, Str_mp)
                     /\ Boundary(text, i)
                     /\ i + 3 <= Len(text)
                     /\ IsDigit(text[i + 3])
                     /\ Boundary(text, RunEnd(text, i + 3, Digits) + 1)}
    IN  IF starts = {} THEN None
        ELSE SubSeq(text, Min(starts), RunEnd(text, Min(starts) + 3, Digits))

\* the element symbols known to the chemical-composition grammar
Elements ==
    {<<"H">>, <<"H", "e">>, <<"L", "i">>, <<"B", "e">>, <<"B">>, <<"C">>,
     <<"N">>, <<"O">>, <<"F">>, <<"N", "e">>, <<"N", "a">>, <<"M", "g">>,
     <<"A", "l">>, <<"S", "i">>, <<"P">>, <<"S">>, <<"C", "l">>,
     <<"A", "r">>, <<"K">>, <<"C", "a">>, <<"S", "c">>, <<"T", "i">>,
     <<"V">>, <<"C", "r">>, <<"M", "n">>, <<"F", "e">>, <<"C", "o">>,
     <<"N", "i">>, <<"C", "u">>, <<"Z", "n">>, <<"G", "a">>, <<"G", "e">>,
     <<"A", "s">>, <<"S", "e">>, <<"B", "r">>, <<"K", "r">>, <<"R", "b">>,
     <<"S", "r">>, <<"Y">>, <<"Z", "r">>, <<"N", "b">>, <<"M", "o">>,
     <<"T", "c">>, <<"R", "u">>, <<"R", "h">>, <<"P", "d">>, <<"A", "g">>,
     <<"C", "d">>, <<"I", "n">>, <<"S", "n">>, <<"S", "b">>, <<"T", "e">>,
     <<"I">>, <<"X", "e">>, <<"C", "s">>, <<"B", "a">>, <<"L", "a">>,
     <<"C", "e">>, <<"P", "r">>, <<"N", "d">>, <<"P", "m">>, <<"S", "m">>,
     <<"E", "u">>, <<"G", "d">>, <<"T", "b">>, <<"D", "y">>, <<"H", "o">>,
     <<"E", "r">>, <<"T", "m">>, <<"Y", "b">>, <<"L", "u">>, <<"H", "f">>,
     <<"T", "a">>, <<"W">>, <<"R", "e">>, <<"O", "s">>, <<"I", "r">>,
     <<"P", "t">>, <<"A", "u">>, <<"H", "g">>, <<"T", "l">>, <<"P", "b">>,
     <<"B", "i">>, <<"P", "o">>, <<"A", "t">>, <<"R", "n">>, <<"F", "r">>,
     <<"R", "a">>, <<"A", "c">>, <<"T", "h">>, <<"P", "a">>, <<"U">>,
     <<"N", "p">>, <<"P", "u">>, <<"A", "m">>, <<"C", "m">>, <<"B", "k">>,
     <<"C", "f">>, <<"E", "s">>, <<"F", "m">>, <<"M", "d">>, <<"N", "o">>,
     <<"L", "r">>, <<"R", "f">>, <<"D", "b">>, <<"S", "g">>, <<"B", "h">>,
     <<"H", "s">>, <<"M", "t">>, <<"D", "s">>, <<"R", "g">>, <<"C", "n">>,
     <<"N", "h">>, <<"F", "l">>, <<"M", "c">>, <<"L", "v">>, <<"T", "s">>,
     <<"O", "g">>}

\* a symbol the grammar takes for a dummy species: neither its first letter
\* nor its first two letters are an element symbol
IsDummySymbol(sym) ==
    /\ SubSeq(sym, 1, 1) \notin Elements
    /\ Len(sym) < 2 \/ SubSeq(sym, 1, 2) \notin Elements

RECURSIVE IsComposition(_)
\* Composition(token) does not raise: token is a sequence of units, each a
\* capital letter, lower-case letters and an optional amount in digits, and
\* each symbol an element or a dummy species
IsComposition(tok) ==
    IF tok = <<>> THEN TRUE
    ELSE IF ~IsUpper(tok[1]) THEN FALSE
    ELSE LET e == RunEnd(tok, 2, Lowers)
             sym == SubSeq(tok, 1, e)
             e2 == RunEnd(tok, e + 1, Digits)
         IN  /\ sym \in Elements \/ IsDummySymbol(sym)
             /\ IsComposition(SubSeq(tok, e2 + 1, Len(tok)))

_validate_formula(token) == token # <<>> /\ IsComposition(token)

\* r"([A-Za-z][A-Za-z0-9]*)\s*\(": group 1 of the leftmost match, or None
BeforeParenSearch(text) ==
    LET parenAt(i) == RunEnd(text, RunEnd(text, i, Alnums) + 1, Spaces) + 1
        starts == {i \in 1..Len(text) :
                     /\ IsLetter(text[i])
                     /\ parenAt(i) <= Len(text)
                     /\ text[parenAt(i)] = "("}
    IN  IF starts = {} THEN None
        ELSE SubSeq(text, Min(starts), RunEnd(text, Min(starts), Alnums))

RECURSIVE FindTokens(_, _)
\* re.findall(r"\b[A-Za-z][A-Za-z0-9]*\b", text) from position i on
FindTokens(text, i) ==
    IF i > Len(text) THEN <<>>
    ELSE LET e == RunEnd(text, i, Alnums)
         IN  IF IsLetter(text[i]) /\ Boundary(text, i) /\ Boundary(text, e + 1)
             THEN <<SubSeq(text, i, e)>> \o FindTokens(text, e + 1)
             ELSE FindTokens(text, i + 1)

RECURSIVE ScanTokens(_)
\* the general scan of parse_formula over the tokens found
ScanTokens(toks) ==
    IF toks = <<>> THEN None
    ELSE LET tok == Head(toks)
         IN  IF Lower(tok) \in STOPWORDS THEN ScanTokens(Tail(toks))
             ELSE IF ~IsUpper(tok[1]) THEN ScanTokens(Tail(toks))
             ELSE IF Len(tok) > 20 THEN ScanTokens(Tail(toks))
             ELSE IF _validate_formula(tok) THEN tok
             ELSE ScanTokens(Tail(toks))

parse_formula(text) ==
    LET tok == BeforeParenSearch(text)
    IN  IF tok # None /\ Lower(tok) \notin STOPWORDS /\ _validate_formula(tok)
        THEN tok
        ELSE ScanTokens(FindTokens(text, 1))

\* parse_query that runs the formula extractor whatever the material ID
parse_query_formula_not_gated(query) ==
    [mp_id |-> parse_mp_id(query),
     formula |-> parse_formula(query),
     miller |-> parse_miller(query),
     layers |-> parse_layers(query),
     vacuum |-> parse_vacuum(query),
     supercell |-> parse_supercell(query)]

parse_query(query) ==
    LET mp_id == parse_mp_id(query)
    IN  [mp_id |-> mp_id,
         formula |-> IF mp_id # None THEN None ELSE parse_formula(query),
         miller |-> parse_miller(query),
         layers |-> parse_layers(query),
         vacuum |-> parse_vacuum(query),
         supercell |-> parse_supercell(query)]

(***************************************************************************)
(* tools/materials_project.py                                              *)
(***************************************************************************)
Msg_no_structure_for ==
    <<"N", "o", " ", "s", "t", "r", "u", "c", "t", "u", "r", "e", " ", "f",
      "o", "u", "n", "d", " ", "f", "o", "r", " ">>
Msg_no_materials_for ==
    <<"N", "o", " ", "m", "a", "t", "e", "r", "i", "a", "l", "s", " ", "f",
      "o", "u", "n", "d", " ", "f", "o", "r", " ", "f", "o", "r", "m", "u",
      "l", "a", " ", "'">>
Msg_no_material_id ==
    <<"m", "a", "t", "e", "r", "i", "a", "l", "s", ".", "s", "u", "m", "m",
      "a", "r", "y", ".", "s", "e", "a", "r", "c", "h", " ", "d", "i", "d",
      " ", "n", "o", "t", " ", "r", "e", "t", "u", "r", "n", " ", "a", " ",
      "m", "a", "t", "e", "r", "i", "a", "l", "_", "i", "d">>
Msg_no_structure_for_id ==
    <<"N", "o", " ", "s", "t", "r", "u", "c", "t", "u", "r", "e", " ", "f",
      "o", "u", "n", "d", " ", "f", "o", "r", " ", "m", "a", "t", "e", "r",
      "i", "a", "l", "_", "i", "d", " ">>
Msg_invalid_key ==
    <<"I", "n", "v", "a", "l", "i", "d", " ", "o", "r", " ", "o", "l", "d",
      " ", "M", "a", "t", "e", "r", "i", "a", "l", "s", " ", "P", "r", "o",
      "j", "e", "c", "t", " ", "A", "P", "I", " ", "k", "e", "y", ".", " ",
      "O", "b", "t", "a", "i", "n", " ", "a", " ", "n", "e", "w", " ", "k",
      "e", "y", " ", "f", "r", "o", "m", " ", "h", "t", "t", "p", "s", ":",
      "/", "/", "m", "a", "t", "e", "r", "i", "a", "l", "s", "p", "r", "o",
      "j", "e", "c", "t", ".", "o", "r", "g", "/", "d", "a", "s", "h", "b",
      "o", "a", "r", "d", " ", "a", "n", "d", " ", "s", "e", "t", " ", "M",
      "P", "_", "A", "P", "I", "_", "K", "E", "Y", ".">>
Msg_failed_fetch ==
    <<"F", "a", "i", "l", "e", "d", " ", "t", "o", " ", "f", "e", "t", "c",
      "h", " ", "s", "t", "r", "u", "c", "t", "u", "r", "e", " ", "f", "o",
      "r", " ">>
Msg_failed_fetch_formula ==
    <<"F", "a", "i", "l", "e", "d", " ", "t", "o", " ", "f", "e", "t", "c",
      "h", " ", "s", "t", "r", "u", "c", "t", "u", "r", "e", " ", "f", "o",
      "r", " ", "f", "o", "r", "m", "u", "l", "a", " ", "'">>
Msg_via ==
    <<" ", "v", "i", "a", " ", "m", "p", "-", "a", "p", "i", ".", " ", "E",
      "r", "r", "o", "r", ":", " ">>
Msg_quote_via ==
    <<"'", " ", "v", "i", "a", " ", "m", "p", "-", "a", "p", "i", ".", " ",
      "E", "r", "r", "o", "r", ":", " ">>
Msg_key_not_found ==
    <<"M", "a", "t", "e", "r", "i", "a", "l", "s", " ", "P", "r", "o", "j",
      "e", "c", "t", " ", "A", "P", "I", " ", "k", "e", "y", " ", "n", "o",
      "t", " ", "f", "o", "u", "n", "d", ".", " ", "S", "e", "t", " ", "M",
      "P", "_", "A", "P", "I", "_", "K", "E", "Y", " ", "(", "p", "r", "e",
      "f", "e", "r", "r", "e", "d", ")", " ", "o", "r", " ", "M", "A", "P",
      "I", "_", "K", "E", "Y", " ", "i", "n", " ", "y", "o", "u", "r", " ",
      "e", "n", "v", "i", "r", "o", "n", "m", "e", "n", "t", " ", "o", "r",
      " ", ".", "e", "n", "v", " ", "f", "i", "l", "e", ".">>
Msg_not_installed ==
    <<"m", "p", "-", "a", "p", "i", " ", "i", "s", " ", "n", "o", "t", " ",
      "i", "n", "s", "t", "a", "l", "l", "e", "d", ".", " ", "P", "l", "e",
      "a", "s", "e", " ", "i", "n", "s", "t", "a", "l", "l", " ", "'", "m",
      "p", "-", "a", "p", "i", "'", " ", "t", "o", " ", "u", "s", "e", " ",
      "M", "a", "t", "e", "r", "i", "a", "l", "s", " ", "P", "r", "o", "j",
      "e", "c", "t", " ", "t", "o", "o", "l", "s", ".">>
Marker_invalid_key ==
    <<"I", "n", "v", "a", "l", "i", "d", " ", "o", "r", " ", "o", "l", "d",
      " ", "A", "P", "I", " ", "k", "e", "y">>
Marker_401 ==
    <<"4", "0", "1">>

\* needle in msg (Python's substring test on str)
Contains(msg, needle) ==
    \E i \in 1..(Len(msg) - Len(needle) + 1) :
        SubSeq(msg, i, i + Len(needle) - 1) = needle

\* an exception: its Python type, the raise statement it comes from, its text
\* no structure (a document's structure field that is None)
NoStruct == [id |-> <<>>, dhkl |-> [n |-> 0, d |-> 1], reduced_formula |-> <<>>]

Raise(type, at, msg) ==
    [ok |-> FALSE, type |-> type, at |-> at, msg |-> msg,
     struct |-> NoStruct, mp_id |-> None]

\* a normal return of a lookup
Return(struct, mp_id) ==
    [ok |-> TRUE, type |-> "", at |-> "", msg |-> <<>>,
     struct |-> struct, mp_id |-> mp_id]

\* the handler shared by both lookups: "except Exception as e" with msg = str(e)
Translate(msg, wrapped) ==
    IF Contains(msg, Marker_invalid_key) \/ Contains(msg, Marker_401)
    THEN Raise("RuntimeError", "invalid_key", Msg_invalid_key)
    ELSE Raise("RuntimeError", "failed_fetch", wrapped)

\* _require_mp_api and _ensure_api_key, which run before the try block;
\* tool is [installed, api_key]
Precheck(tool) ==
    IF ~tool.installed THEN Raise("ImportError", "not_installed", Msg_not_installed)
    ELSE IF ~tool.api_key THEN Raise("RuntimeError", "key_not_found", Msg_key_not_found)
    ELSE Return(NoStruct, None)

\* get_structure_by_mp_id; reply is what materials.summary.search does:
\* [raises, msg] an exception with that text, or [results] a list of documents
get_structure_by_mp_id(tool, mp_id_arg, reply) ==
    LET mp_id == Strip(mp_id_arg)
        wrap(msg) == Msg_failed_fetch \o mp_id \o Msg_via \o msg
        notFound == Msg_no_structure_for \o mp_id
    IN  IF ~Precheck(tool).ok THEN Precheck(tool)
        ELSE IF reply.raises THEN Translate(reply.msg, wrap(reply.msg))
        ELSE IF reply.results = <<>> THEN Translate(notFound, wrap(notFound))
        ELSE IF reply.results[1].structure = NoStruct
             THEN Translate(notFound, wrap(notFound))
        ELSE Return(reply.results[1].structure, mp_id)

\* energy_above_hull of a document: None, or a number
NoMetric == [known |-> FALSE, value |-> 0]
Metric(v) == [known |-> TRUE, value |-> v]

\* the sort key of get_structure_by_formula: float("inf") for None
HullKey(doc) ==
    IF doc.energy_above_hull = NoMetric THEN [inf |-> TRUE, value |-> 0]
    ELSE [inf |-> FALSE, value |-> doc.energy_above_hull.value]

\* a < b on sort keys
KeyLess(a, b) == ~a.inf /\ (b.inf \/ a.value < b.value)

RECURSIVE InsertSorted(_, _)
\* doc placed after every document whose key is not greater: a stable order
InsertSorted(sorted, doc) ==
    IF sorted = <<>> THEN <<doc>>
    ELSE IF ~KeyLess(HullKey(doc), HullKey(Head(sorted)))
         THEN <<Head(sorted)>> \o InsertSorted(Tail(sorted), doc)
         ELSE <<doc>> \o sorted

RECURSIVE SortByHull(_)
\* sorted(results, key=...): Python's sort is stable
SortByHull(results) ==
    IF results = <<>> THEN <<>>
    ELSE InsertSorted(SortByHull(SubSeq(results, 1, Len(results) - 1)),
                      results[Len(results)])

\* get_structure_by_formula
get_structure_by_formula(tool, formula_arg, reply) ==
    LET formula == Strip(formula_arg)
        wrap(msg) == Msg_failed_fetch_formula \o formula \o Msg_quote_via \o msg
        notFound == Msg_no_materials_for \o formula \o <<"'">>
        top == SortByHull(reply.results)[1]
        noStruct == Msg_no_structure_for_id \o top.material_id
    IN  IF ~Precheck(tool).ok THEN Precheck(tool)
        ELSE IF reply.raises THEN Translate(reply.msg, wrap(reply.msg))
        ELSE IF reply.results = <<>> THEN Translate(notFound, wrap(notFound))
        ELSE IF top.material_id = None
             THEN Translate(Msg_no_material_id, wrap(Msg_no_material_id))
        ELSE IF top.structure = NoStruct THEN Translate(noStruct, wrap(noStruct))
        ELSE Return(top.structure, top.material_id)

(***************************************************************************)
(* tools/ase_tools.py and tools/pmg_slab_thickness.py                      *)
(***************************************************************************)
Msg_supercell ==
    <<"S", "u", "p", "e", "r", "c", "e", "l", "l", " ", "r", "e", "p", "e",
      "a", "t", "s", " ", "m", "u", "s", "t", " ", "b", "e", " ", "p", "o",
      "s", "i", "t", "i", "v", "e", " ", "i", "n", "t", "e", "g", "e", "r",
      "s", ".">>
Msg_thickness_positive ==
    <<"t", "h", "i", "c", "k", "n", "e", "s", "s", " ", "m", "u", "s", "t",
      " ", "b", "e", " ", ">", " ", "0", " ", "A", "n", "g", "s", "t", "r",
      "o", "m", ".">>
Msg_vacuum_positive ==
    <<"v", "a", "c", "u", "u", "m", " ", "m", "u", "s", "t", " ", "b", "e",
      " ", ">", " ", "0", " ", "A", "n", "g", "s", "t", "r", "o", "m", ".">>
Msg_no_slabs ==
    <<"S", "l", "a", "b", "G", "e", "n", "e", "r", "a", "t", "o", "r", " ",
      "d", "i", "d", " ", "n", "o", "t", " ", "r", "e", "t", "u", "r", "n",
      " ", "a", "n", "y", " ", "s", "l", "a", "b", "s", ";", " ", "t", "r",
      "y", " ", "i", "n", "c", "r", "e", "a", "s", "i", "n", "g", " ", "t",
      "h", "i", "c", "k", "n", "e", "s", "s", " ", "o", "r", " ", "a", "d",
      "j", "u", "s", "t", "i", "n", "g", " ", "i", "n", "p", "u", "t", "s",
      ".">>
Str_cif ==
    <<".", "c", "i", "f">>
Str_POSCAR ==
    <<"P", "O", "S", "C", "A", "R", "_">>

Zero == [n |-> 0, d |-> 1]

\* the atoms a slab builder makes: what it was built from
NoSlab ==
    [bulk |-> <<>>, miller |-> <<0, 0, 0>>, by |-> "", size |-> Zero,
     vacuum |-> Zero, repeat |-> <<0, 0>>]

\* the result of a tool: atoms, or an exception
Atoms(slab) == [ok |-> TRUE, type |-> "", at |-> "", msg |-> <<>>, slab |-> slab]
ToolRaise(type, at, msg) ==
    [ok |-> FALSE, type |-> type, at |-> at, msg |-> msg, slab |-> NoSlab]

\* build_slab over structure_to_atoms: ASE's surface() with integer layers
build_slab(struct, miller, layers, vacuum) ==
    Atoms([bulk |-> struct.id, miller |-> miller, by |-> "layers",
           size |-> [n |-> layers, d |-> 1], vacuum |-> vacuum,
           repeat |-> <<1, 1>>])

\* pmg_slab_with_thickness_to_ase; has_slabs: SlabGenerator.get_slabs is not empty
pmg_slab_with_thickness_to_ase(struct, miller, thickness, vacuum, has_slabs) ==
    IF DecLeq(thickness, Zero)
    THEN ToolRaise("ValueError", "thickness_positive", Msg_thickness_positive)
    ELSE IF DecLeq(vacuum, Zero)
    THEN ToolRaise("ValueError", "vacuum_positive", Msg_vacuum_positive)
    ELSE IF ~has_slabs THEN ToolRaise("RuntimeError", "no_slabs", Msg_no_slabs)
    ELSE Atoms([bulk |-> struct.id, miller |-> miller, by |-> "thickness",
                size |-> thickness, vacuum |-> vacuum, repeat |-> <<1, 1>>])

\* apply_supercell without its check of the repeats
apply_supercell_unchecked(atoms, nx, ny) ==
    Atoms([atoms EXCEPT !.repeat = <<atoms.repeat[1] * nx, atoms.repeat[2] * ny>>])

\* apply_supercell: atoms.repeat((nx, ny, 1))
apply_supercell(atoms, nx, ny) ==
    IF nx <= 0 \/ ny <= 0 THEN ToolRaise("ValueError", "supercell", Msg_supercell)
    ELSE Atoms([atoms EXCEPT !.repeat = <<atoms.repeat[1] * nx, atoms.repeat[2] * ny>>])

\* os.path.join(outdir, name) for a relative name
PathJoin(outdir, name) ==
    IF outdir = <<>> \/ outdir[Len(outdir)] = "/" THEN outdir \o name
    ELSE outdir \o <<"/">> \o name

\* save_outputs: the writes it performs, in order, as (path, atoms, format)
save_outputs(atoms, outdir, base_name) ==
    <<[path |-> PathJoin(outdir, base_name \o Str_cif), atoms |-> atoms,
       format |-> "cif"],
      [path |-> PathJoin(outdir, Str_POSCAR \o base_name), atoms |-> atoms,
       format |-> "vasp"]>>

(***************************************************************************)
(* agent.py                                                                *)
(***************************************************************************)
Msg_no_material ==
    <<"C", "o", "u", "l", "d", " ", "n", "o", "t", " ", "d", "e", "t", "e",
      "r", "m", "i", "n", "e", " ", "a", " ", "m", "a", "t", "e", "r", "i",
      "a", "l", " ", "f", "r", "o", "m", " ", "t", "h", "e", " ", "q", "u",
      "e", "r", "y", ".", " ", "P", "l", "e", "a", "s", "e", " ", "i", "n",
      "c", "l", "u", "d", "e", " ", "a", " ", "c", "h", "e", "m", "i", "c",
      "a", "l", " ", "f", "o", "r", "m", "u", "l", "a", " ", "(", "e", ".",
      "g", ".", ",", " ", "S", "i", ",", " ", "S", "r", "T", "i", "O", "3",
      ")", " ", "o", "r", " ", "a", "n", " ", "M", "P", " ", "I", "D", " ",
      "(", "e", ".", "g", ".", ",", " ", "m", "p", "-", "1", "4", "9", ")",
      ".">>
Msg_thickness_pre ==
    <<"C", "o", "u", "l", "d", " ", "n", "o", "t", " ", "p", "a", "r", "s",
      "e", " ", "-", "-", "t", "h", "i", "c", "k", "n", "e", "s", "s", " ",
      "v", "a", "l", "u", "e", " ", "'">>
Msg_thickness_post ==
    <<"'", ".", " ", "U", "s", "e", " ", "n", "u", "m", "e", "r", "i", "c",
      " ", "Ang", " ", "(", "e", ".", "g", ".", ",", " ", "7", ".", "5", ")",
      " ", "o", "r", " ", "'", "<", "f", "a", "c", "t", "o", "r", ">", "d",
      "'", " ", "(", "e", ".", "g", ".", ",", " ", "1", ".", "5", "d", ")",
      ".">>
Str_material ==
    <<"m", "a", "t", "e", "r", "i", "a", "l">>
Str_hkl ==
    <<"_", "h", "k", "l">>
Str_L ==
    <<"_", "L">>
Str_V ==
    <<"_", "V">>
Str_S ==
    <<"_", "S">>

RECURSIVE NatToStr(_)
\* str() of a natural number
NatToStr(n) ==
    IF n < 10 THEN <<DigitSeq[n + 1]>>
    ELSE NatToStr(n \div 10) \o <<DigitSeq[(n % 10) + 1]>>

\* str() of an integer
IntToStr(x) == IF x < 0 THEN <<"-">> \o NatToStr(0 - x) ELSE NatToStr(x)

\* _sanitize_name that only removes the spaces
_sanitize_name_spaces_only(s) == SelectSeq(s, LAMBDA c : c # " ")

_sanitize_name(s) ==
    LET kept == SelectSeq(s, LAMBDA c : c # " ")
    IN  [i \in DOMAIN kept |->
            IF kept[i] \in {"/", "\\"} THEN "-"
            ELSE IF kept[i] = "Ang" THEN "A"
            ELSE kept[i]]

\* fmt of _hkl_to_str
HklFmt(x) == IF x < 0 THEN <<"m">> \o NatToStr(0 - x) ELSE IntToStr(x)

_hkl_to_str(hkl) ==
    HklFmt(hkl[1]) \o <<"_">> \o HklFmt(hkl[2]) \o <<"_">> \o HklFmt(hkl[3])

\* int(round(x)) of a decimal x >= 0: Python rounds a tie to the even integer
RoundHalfEven(x) ==
    LET q == x.n \div x.d
        r == x.n % x.d
    IN  IF 2 * r < x.d THEN q
        ELSE IF 2 * r > x.d THEN q + 1
        ELSE IF q % 2 = 0 THEN q ELSE q + 1

\* a base name without the layer count
BaseName_without_layers(mp_id, formula, miller, layers, vacuum, nx, ny) ==
    LET id_or_formula ==
            IF mp_id # None THEN mp_id
            ELSE IF formula # None THEN formula ELSE Str_material
    IN  _sanitize_name(
            id_or_formula \o Str_hkl \o _hkl_to_str(miller)
            \o Str_V \o IntToStr(RoundHalfEven(vacuum))
            \o Str_S \o IntToStr(nx) \o <<"x">> \o IntToStr(ny))

\* the base name that run gives the output files
BaseName(mp_id, formula, miller, layers, vacuum, nx, ny) ==
    LET id_or_formula ==
            IF mp_id # None THEN mp_id
            ELSE IF formula # None THEN formula ELSE Str_material
    IN  _sanitize_name(
            id_or_formula \o Str_hkl \o _hkl_to_str(miller)
            \o Str_L \o IntToStr(layers)
            \o Str_V \o IntToStr(RoundHalfEven(vacuum))
            \o Str_S \o IntToStr(nx) \o <<"x">> \o IntToStr(ny))

Str_nan == <<"n", "a", "n">>

\* s without surrounding spaces and without its sign
Unsigned(s0) ==
    LET s == Strip(s0)
    IN  IF s # <<>> /\ s[1] \in {"-", "+"} THEN Tail(s) ELSE s

\* s is a decimal literal: surrounding spaces, an optional sign, digits with
\* at most one point and at least one digit
IsDecimalLiteral(s0) ==
    LET body == Unsigned(s0)
        points == {i \in DOMAIN body : body[i] = "."}
    IN  /\ \A i \in DOMAIN body : IsDigit(body[i]) \/ body[i] = "."
        /\ Cardinality(points) <= 1
        /\ \E i \in DOMAIN body : IsDigit(body[i])

\* float(s) succeeds, for s over digits, ".", signs, spaces and letters other
\* than those of "inf" and an exponent: a decimal literal, or nan in any case
\* with an optional sign
IsFloatLiteral(s0) == IsDecimalLiteral(s0) \/ Lower(Unsigned(s0)) = Str_nan

\* float(s) of such a literal
FloatOf(s0) ==
    LET s == Strip(s0)
        neg == s[1] = "-"
        body == Unsigned(s0)
        ip == SubSeq(body, 1, RunEnd(body, 1, Digits))
        fp == SubSeq(body, Len(ip) + 2, Len(body))
        mag == DecOf(ip, fp)
    IN  IF ~IsDecimalLiteral(s0) THEN NaN
        ELSE IF neg THEN [n |-> 0 - mag.n, d |-> mag.d] ELSE mag

NoThickness == [given |-> FALSE, text |-> <<>>]
Hundredth == [n |-> 1, d |-> 100]

\* the thickness block of run: [ok, eff] with eff = [set, value], or the error
EffThickness(thickness, struct) ==
    LET t_str == Lower(Strip(thickness.text))
        bad == [ok |-> FALSE, set |-> FALSE, value |-> Zero]
        good(v) == [ok |-> TRUE, set |-> TRUE, value |-> v]
    IN  IF ~thickness.given THEN [ok |-> TRUE, set |-> FALSE, value |-> Zero]
        ELSE IF t_str # <<>> /\ t_str[Len(t_str)] = "d"
        THEN LET f == SubSeq(t_str, 1, Len(t_str) - 1)
             IN  IF ~IsFloatLiteral(f) THEN bad
                 ELSE LET prod == DecMul(FloatOf(f), struct.dhkl)
                      IN  IF DecLess(Hundredth, prod) THEN good(prod)
                          ELSE good(Hundredth)
        ELSE IF IsFloatLiteral(t_str) THEN good(FloatOf(t_str))
        ELSE bad

(***************************************************************************)
(* The state: the arguments of the current call of SlabAgent.run, the      *)
(* behaviour of its collaborators during the call (env), its position and  *)
(* locals, the collaborator calls it has made, and every file write made   *)
(* so far.  lookup and ret are a direct call of a MaterialsProjectTool     *)
(* method and what it returned or raised.                                  *)
(***************************************************************************)
VARIABLES query, thickness, env, pc, params, resolved, eff_thickness, slab,
          calls, error, writes, nruns, lookup, ret

vars == <<query, thickness, env, pc, params, resolved, eff_thickness, slab,
          calls, error, writes, nruns, lookup, ret>>

runVars == <<query, thickness, env, pc, params, resolved, eff_thickness, slab,
             calls, error, writes, nruns>>

NoParams ==
    [mp_id |-> None, formula |-> None, miller |-> <<0, 0, 0>>, layers |-> 0,
     vacuum |-> Zero, supercell |-> <<0, 0>>]
NoResolved == [source |-> "", struct |-> NoStruct, mp_id |-> None, formula |-> None]
NoEff == [set |-> FALSE, value |-> Zero]
NoError == [type |-> "", at |-> "", msg |-> <<>>]
NoReply == [raises |-> FALSE, msg |-> <<>>, results |-> <<>>]
NoLookup ==
    [method |-> "", arg |-> <<>>, tool |-> [installed |-> TRUE, api_key |-> TRUE],
     reply |-> NoReply]

DefaultOutdir == <<"s", "l", "a", "b", "s", "_", "o", "u", "t">>

\* the state at the entry of run(query, thickness=...) under env
Entry(q, t, e) ==
    /\ query = q
    /\ thickness = t
    /\ env = e
    /\ pc = "parse"
    /\ params = NoParams
    /\ resolved = NoResolved
    /\ eff_thickness = NoEff
    /\ slab = NoSlab
    /\ calls = <<>>
    /\ error = NoError

Fail(e) ==
    /\ error' = [type |-> e.type, at |-> e.at, msg |-> e.msg]
    /\ pc' = "failed"

\* Parse without the check that the query names a material
Parse_without_material_check ==
    /\ pc = "parse"
    /\ params' = parse_query(query)
    /\ pc' = "resolve"
    /\ UNCHANGED <<query, thickness, env, resolved, eff_thickness, slab, calls,
                   error, writes, nruns, lookup, ret>>

\* run, lines 60-66: parse the query, and fail if it names no material
Parse ==
    /\ pc = "parse"
    /\ LET p == parse_query(query)
       IN  /\ params' = p
           /\ IF p.mp_id = None /\ p.formula = None
              THEN Fail(Raise("ValueError", "no_material", Msg_no_material))
              ELSE pc' = "resolve" /\ UNCHANGED error
    /\ UNCHANGED <<query, thickness, env, resolved, eff_thickness, slab, calls,
                   writes, nruns, lookup, ret>>

\* run, lines 68-86: fetch the structure by ID, or else by formula
Resolve ==
    /\ pc = "resolve"
    /\ LET byId == params.mp_id # None
           r == IF byId
                THEN get_structure_by_mp_id(env.tool, params.mp_id, env.reply)
                ELSE get_structure_by_formula(env.tool, params.formula, env.reply)
       IN  /\ calls' = Append(calls, IF byId THEN "get_structure_by_mp_id"
                                      ELSE "get_structure_by_formula")
           /\ IF r.ok
              THEN /\ resolved' =
                        [source |-> IF byId THEN "mp_id" ELSE "formula",
                         struct |-> r.struct,
                         mp_id |-> IF byId THEN params.mp_id ELSE r.mp_id,
                         formula |-> r.struct.reduced_formula]
                   /\ pc' = "thickness"
                   /\ UNCHANGED error
              ELSE Fail(r) /\ UNCHANGED resolved
    /\ UNCHANGED <<query, thickness, env, params, eff_thickness, slab, writes,
                   nruns, lookup, ret>>

\* run, lines 88-101: the effective thickness of a thickness override
Thickness ==
    /\ pc = "thickness"
    /\ LET t == EffThickness(thickness, resolved.struct)
       IN  IF t.ok
           THEN /\ eff_thickness' = [set |-> t.set, value |-> t.value]
                /\ pc' = "build"
                /\ UNCHANGED error
           ELSE /\ Fail(Raise("ValueError", "thickness",
                              Msg_thickness_pre \o thickness.text \o Msg_thickness_post))
                /\ UNCHANGED eff_thickness
    /\ UNCHANGED <<query, thickness, env, params, resolved, slab, calls, writes,
                   nruns, lookup, ret>>

\* run, lines 103-119: build the slab by thickness, or else by layers
Build ==
    /\ pc = "build"
    /\ LET r == IF eff_thickness.set
                THEN pmg_slab_with_thickness_to_ase(
                         resolved.struct, params.miller, eff_thickness.value,
                         params.vacuum, env.has_slabs)
                ELSE build_slab(resolved.struct, params.miller, params.layers,
                                params.vacuum)
       IN  /\ calls' = IF eff_thickness.set
                       THEN Append(calls, "pmg_slab_with_thickness_to_ase")
                       ELSE calls \o <<"structure_to_atoms", "build_slab">>
           /\ IF r.ok
              THEN slab' = r.slab /\ pc' = "supercell" /\ UNCHANGED error
              ELSE Fail(r) /\ UNCHANGED slab
    /\ UNCHANGED <<query, thickness, env, params, resolved, eff_thickness, writes,
                   nruns, lookup, ret>>

\* run, lines 121-124: replicate the slab unless the supercell is (1, 1)
Supercell ==
    /\ pc = "supercell"
    /\ IF params.supercell # <<1, 1>>
       THEN LET r == apply_supercell(slab, params.supercell[1], params.supercell[2])
            IN  /\ calls' = Append(calls, "apply_supercell")
                /\ IF r.ok
                   THEN slab' = r.slab /\ pc' = "save" /\ UNCHANGED error
                   ELSE Fail(r) /\ UNCHANGED slab
       ELSE pc' = "save" /\ UNCHANGED <<slab, calls, error>>
    /\ UNCHANGED <<query, thickness, env, params, resolved, eff_thickness, writes,
                   nruns, lookup, ret>>

\* the base name of the current run
RunBaseName ==
    BaseName(resolved.mp_id, resolved.formula, params.miller, params.layers,
             params.vacuum, params.supercell[1], params.supercell[2])

\* run, lines 126-147: name the outputs, write them and return
Save ==
    /\ pc = "save"
    /\ calls' = Append(calls, "save_outputs")
    /\ writes' = writes \cup
           {[path |-> w.path, atoms |-> w.atoms, format |-> w.format,
             mp_id |-> resolved.mp_id,
             params |-> params, thickness |-> eff_thickness] :
                w \in Range(save_outputs(slab, DefaultOutdir, RunBaseName))}
    /\ pc' = "done"
    /\ UNCHANGED <<query, thickness, env, params, resolved, eff_thickness, slab,
                   error, nruns, lookup, ret>>

(***************************************************************************)
(* Inputs.  A text is a concatenation of at most n pieces of a lexicon.    *)
(***************************************************************************)
RECURSIVE Texts(_, _)
Texts(lex, n) ==
    IF n = 0 THEN {<<>>}
    ELSE LET shorter == Texts(lex, n - 1)
         IN  shorter \cup {t \o p : t \in shorter, p \in lex}

Str_Si == <<"S", "i">>
Id_mp149 == <<"m", "p", "-", "1", "4", "9">>

\* a bulk structure; dhkl is what its lattice gives for the Miller indices of
\* the run
Bulk(id, dhkl) == [id |-> id, dhkl |-> dhkl, reduced_formula |-> Str_Si]
SiBulk == Bulk(Str_Si, [n |-> 2, d |-> 1])

Doc(material_id, energy_above_hull, structure) ==
    [material_id |-> material_id, energy_above_hull |-> energy_above_hull,
     structure |-> structure]

Found(results) == [raises |-> FALSE, msg |-> <<>>, results |-> results]
Raises(msg) == [raises |-> TRUE, msg |-> msg, results |-> <<>>]

GoodTool == [installed |-> TRUE, api_key |-> TRUE]

\* collaborators that all succeed
GoodEnv ==
    [tool |-> GoodTool, reply |-> Found(<<Doc(Id_mp149, Metric(0), SiBulk)>>),
     has_slabs |-> TRUE]

\* the part of the state that a call of run starts from
Fresh ==
    /\ writes = {}
    /\ nruns = 1
    /\ lookup = NoLookup
    /\ ret = Return(NoStruct, None)

(***************************************************************************)
(* SpecParse: parse_query on every text over ParseLexicon.                 *)
(***************************************************************************)
MaxParsePieces == 3

ParseLexicon ==
    {<<"m", "p", "-", "1">>,
     <<"S", "i">>,
     <<" ">>,
     <<"0">>,
     <<"2">>,
     <<".", "5">>,
     <<"x">>,
     <<"l", "a", "y", "e", "r", "s">>,
     <<"v", "a", "c", "u", "u", "m">>,
     <<"A">>,
     <<"a">>}

InitParse ==
    /\ \E q \in Texts(ParseLexicon, MaxParsePieces) : Entry(q, NoThickness, GoodEnv)
    /\ Fresh

SpecParse == InitParse /\ [][Parse]_vars

\* the run has parsed its query
Parsed == pc # "parse"

AllIn(text, i, j, S) == \A k \in i..j : text[k] \in S

\* the (first, last) positions of the whole-word matches of mp-<digits>
MpIdMatches(text) ==
    {m \in (1..Len(text)) \X (1..Len(text)) :
        /\ m[1] + 3 <= m[2]
        /\ LitAt(text, m[1], Str_mp)
        /\ AllIn(text, m[1] + 3, m[2], Digits)
        /\ Boundary(text, m[1])
        /\ Boundary(text, m[2] + 1)}

\* C2: after parse_query at most one of material_id and formula is set, and
\* a text with a whole-word mp-<digits> match gets that (leftmost) match as
\* material_id and no formula, whatever formula tokens it holds
C2_IdExcludesFormula ==
    Parsed =>
        /\ ~(params.mp_id # None /\ params.formula # None)
        /\ LET ms == MpIdMatches(query)
           IN  IF ms = {} THEN params.mp_id = None
               ELSE /\ params.formula = None
                    /\ \E m \in ms :
                          /\ \A o \in ms : m[1] <= o[1]
                          /\ params.mp_id = SubSeq(query, m[1], m[2])

\* a parsed text that holds both a material ID and a valid formula token
C2_Witness ==
    /\ Parsed
    /\ MpIdMatches(query) # {}
    /\ parse_formula(query) # None
    /\ params.mp_id # None

\* the text holds <int> layer(s) or layer(s) <int>
HasLayersPattern(text) ==
    \E i \in 1..Len(text) :
        /\ LitAt(text, i, Str_layer)
        /\ \/ \E k \in 1..(i - 1) :
                 IsDigit(text[k]) /\ AllIn(text, k + 1, i - 1, Spaces)
           \/ \E k \in (i + 5)..Len(text) :
                 /\ IsDigit(text[k])
                 /\ \/ AllIn(text, i + 5, k - 1, Spaces)
                    \/ /\ LowerChar(text[i + 5]) = "s"
                       /\ AllIn(text, i + 6, k - 1, Spaces)

\* the text holds <number> A vacuum or vacuum <number>
HasVacuumPattern(text) ==
    \E i \in 1..Len(text) :
        /\ LitAt(text, i, Str_vacuum)
        /\ \/ \E u \in 2..(i - 1) :
                 /\ text[u] \in AngstromChars
                 /\ AllIn(text, u + 1, i - 1, Spaces)
                 /\ \E k \in 1..(u - 1) :
                       IsDigit(text[k]) /\ AllIn(text, k + 1, u - 1, Spaces)
           \/ \E k \in (i + 6)..Len(text) :
                 IsDigit(text[k]) /\ AllIn(text, i + 6, k - 1, Spaces)

\* the text holds <int> x <int> or repeat <int> <int>
HasSupercellPattern(text) ==
    \/ \E x \in 2..(Len(text) - 1) :
          /\ text[x] \in TimesChars
          /\ \E k \in 1..(x - 1) :
                IsDigit(text[k]) /\ AllIn(text, k + 1, x - 1, Spaces)
          /\ \E k \in (x + 1)..Len(text) :
                IsDigit(text[k]) /\ AllIn(text, x + 1, k - 1, Spaces)
    \/ \E i \in 1..Len(text) :
          /\ LitAt(text, i, Str_repeat)
          /\ \E a \in (i + 7)..Len(text) :
                /\ AllIn(text, i + 6, a - 1, Spaces)
                /\ IsDigit(text[a])
                /\ \E b \in (a + 2)..Len(text) :
                      /\ IsDigit(text[b])
                      /\ \E e \in a..(b - 2) :
                            /\ AllIn(text, a, e, Digits)
                            /\ AllIn(text, e + 1, b - 1, Spaces)

\* the numbers written in a text: the values of its runs of digits
WrittenCounts(text) ==
    {StrToInt(SubSeq(text, r[1], r[2])) :
        r \in {r \in (1..Len(text)) \X (1..Len(text)) :
                  r[1] <= r[2] /\ AllIn(text, r[1], r[2], Digits)}}

\* when its pattern is absent a parameter has its default
DefaultsWhenAbsent ==
    /\ ~HasLayersPattern(query) => params.layers = 6
    /\ ~HasVacuumPattern(query) => params.vacuum = [n |-> 15, d |-> 1]
    /\ ~HasSupercellPattern(query) => params.supercell = <<1, 1>>

\* C4 as claimed: after parse_query layers >= 1, vacuum > 0, nx >= 1 and
\* ny >= 1, and a parameter whose pattern is absent is 6, 15.0 or (1, 1)
C4_Positive ==
    Parsed =>
        /\ params.layers >= 1
        /\ params.vacuum.n > 0
        /\ params.supercell[1] >= 1
        /\ params.supercell[2] >= 1
        /\ DefaultsWhenAbsent

\* C4 as amended: after parse_query layers, vacuum, nx and ny are not
\* negative, and one of them is zero only where the text writes a zero; a
\* layer count whose pattern is present is a number written in the text, and
\* a parameter whose pattern is absent is 6, 15.0 or (1, 1)
C4_NonNegative ==
    Parsed =>
        /\ params.layers >= 0
        /\ params.vacuum.n >= 0
        /\ params.supercell[1] >= 0
        /\ params.supercell[2] >= 0
        /\ (\/ params.layers = 0
            \/ params.vacuum.n = 0
            \/ params.supercell[1] = 0
            \/ params.supercell[2] = 0) => "0" \in Range(query)
        /\ HasLayersPattern(query) => params.layers \in WrittenCounts(query)
        /\ DefaultsWhenAbsent

\* a parsed text that writes a zero layer count and no vacuum
C4_Witness ==
    /\ Parsed
    /\ HasLayersPattern(query)
    /\ params.layers = 0
    /\ ~HasVacuumPattern(query)
    /\ params.vacuum = DEFAULT_VACUUM

(***************************************************************************)
(* SpecMiller: parse_query on texts of parenthesized groups and digits.    *)
(***************************************************************************)
MaxMillerPieces == 4

MillerLexicon ==
    {<<"(", "1", " ", "-", "1", " ", "0", ")">>,
     <<"(", "1", ",", "1", ",", "0", ")">>,
     <<"(", "1", "1", "1", ")">>,
     <<"(", "5", ")">>,
     <<"(">>,
     <<")">>,
     <<"1">>,
     <<"-">>,
     <<" ">>,
     <<"2", "0", "0">>,
     <<"S", "i">>}

InitMiller ==
    /\ \E q \in Texts(MillerLexicon, MaxMillerPieces) : Entry(q, NoThickness, GoodEnv)
    /\ Fresh

SpecMiller == InitMiller /\ [][Parse]_vars

\* the (open, close) positions of the parenthesized groups of a text whose
\* inside is made of digits, minus signs, commas and spaces
ParenGroups(text) ==
    {g \in (1..Len(text)) \X (1..Len(text)) :
        /\ g[1] + 1 < g[2]
        /\ text[g[1]] = "("
        /\ text[g[2]] = ")"
        /\ AllIn(text, g[1] + 1, g[2] - 1, MillerClass)}

\* the words of a group: its inside split at commas and spaces
GroupParts(text, g) ==
    LET group == SubSeq(text, g[1] + 1, g[2] - 1)
    IN  SplitWs([i \in DOMAIN group |-> IF group[i] = "," THEN " " ELSE group[i]])

IsCompact(tok) == Len(tok) = 3 /\ \A k \in 1..3 : IsDigit(tok[k])

\* the explicit triples of signed integers written in parentheses
ExplicitTriples(text) ==
    {<<IntOf(GroupParts(text, g)[1]), IntOf(GroupParts(text, g)[2]),
       IntOf(GroupParts(text, g)[3])>> :
        g \in {g \in ParenGroups(text) :
                 /\ Len(GroupParts(text, g)) = 3
                 /\ \A k \in 1..3 : IsIntLiteral(GroupParts(text, g)[k])}}

\* the compact three-digit tokens written in parentheses, split digit-wise
ParenCompacts(text) ==
    {DigitWise(GroupParts(text, g)[1]) :
        g \in {g \in ParenGroups(text) :
                 /\ Len(GroupParts(text, g)) = 1
                 /\ IsCompact(GroupParts(text, g)[1])}}

\* the word-bounded three-digit tokens of a text, split digit-wise
BareCompacts(text) ==
    {DigitWise(SubSeq(text, i, i + 2)) :
        i \in {i \in 1..(Len(text) - 2) :
                 /\ AllIn(text, i, i + 2, Digits)
                 /\ Boundary(text, i)
                 /\ Boundary(text, i + 3)}}

\* C3: for a text that holds a parenthesized triple of signed integers,
\* wherever it stands and whatever else the text holds, parse_miller returns
\* that triple
C3_ExplicitTripleReturned ==
    Parsed => (ExplicitTriples(query) # {} => params.miller \in ExplicitTriples(query))

\* C10: parse_miller follows the priority order: an explicit parenthesized
\* triple anywhere, else a parenthesized compact token, else a bare compact
\* token, each split digit-wise, else (1, 0, 0); so (1, 0, 0) is returned only
\* when no form matches or the winning form denotes it
C10_PriorityOrder ==
    Parsed =>
        IF ExplicitTriples(query) # {} THEN params.miller \in ExplicitTriples(query)
        ELSE IF ParenCompacts(query) # {} THEN params.miller \in ParenCompacts(query)
        ELSE IF BareCompacts(query) # {} THEN params.miller \in BareCompacts(query)
        ELSE params.miller = <<1, 0, 0>>

\* what the code does of C3 and C10: the leftmost parenthesized group
\* decides; if it is a triple or a compact token that is returned, and
\* otherwise the leftmost bare compact token or the default
MillerLeftmostGroupDecides ==
    Parsed =>
        LET gs == ParenGroups(query)
            first == CHOOSE g \in gs : \A o \in gs : g[1] <= o[1]
            parts == GroupParts(query, first)
        IN  IF gs # {} /\ Len(parts) = 3 /\ \A k \in 1..3 : IsIntLiteral(parts[k])
            THEN params.miller = <<IntOf(parts[1]), IntOf(parts[2]), IntOf(parts[3])>>
            ELSE IF gs # {} /\ Len(parts) = 1 /\ IsCompact(parts[1])
            THEN params.miller = DigitWise(parts[1])
            ELSE IF BareCompacts(query) # {}
            THEN params.miller \in BareCompacts(query)
            ELSE params.miller = <<1, 0, 0>>

(***************************************************************************)
(* SpecMP: direct calls of the two lookups of MaterialsProjectTool, under  *)
(* every reply of the database client within the bounds.                   *)
(***************************************************************************)
MaxResults == 2

Id_mp1 == <<"m", "p", "-", "1">>
Id_mp401 == <<"m", "p", "-", "4", "0", "1">>
Str_H401 == <<"H", "4", "0", "1">>
Msg_timeout == <<"t", "i", "m", "e", "o", "u", "t">>
Msg_401_unauthorized == <<"4", "0", "1", " ", "U", "n", "a", "u", "t", "h", "o", "r", "i", "z", "e", "d">>

\* what the client says when the server rejects the key, and another failure
KeyRejections == {Marker_invalid_key, Msg_401_unauthorized}
ClientErrors == KeyRejections \cup {Msg_timeout}

Docs ==
    {Doc(id, m, s) : id \in {Id_mp1, Id_mp401, None},
                     m \in {NoMetric, Metric(0), Metric(1)},
                     s \in {SiBulk, NoStruct}}

RECURSIVE Lists(_, _)
\* the lists of at most n members of S
Lists(S, n) ==
    IF n = 0 THEN {<<>>}
    ELSE LET shorter == Lists(S, n - 1)
         IN  shorter \cup {Append(l, x) : l \in shorter, x \in S}

Replies ==
    {Found(rs) : rs \in Lists(Docs, MaxResults)} \cup {Raises(m) : m \in ClientErrors}

Tools ==
    {GoodTool, [installed |-> TRUE, api_key |-> FALSE],
     [installed |-> FALSE, api_key |-> TRUE]}

LookupIds == {Id_mp149, Id_mp401}
LookupFormulas == {Str_Si, Str_H401}

\* the part of the state that a direct lookup leaves alone
Idle == Entry(<<>>, NoThickness, GoodEnv) /\ writes = {} /\ nruns = 1

InitMP ==
    /\ Idle
    /\ lookup = NoLookup
    /\ ret = Return(NoStruct, None)

\* one call of get_structure_by_mp_id on a fresh tool
CallById ==
    \E id \in LookupIds, tool \in Tools, reply \in Replies :
        /\ lookup = NoLookup
        /\ lookup' = [method |-> "get_structure_by_mp_id", arg |-> id,
                      tool |-> tool, reply |-> reply]
        /\ ret' = get_structure_by_mp_id(tool, id, reply)
        /\ UNCHANGED runVars

\* one call of get_structure_by_formula on a fresh tool
CallByFormula ==
    \E f \in LookupFormulas, tool \in Tools, reply \in Replies :
        /\ lookup = NoLookup
        /\ lookup' = [method |-> "get_structure_by_formula", arg |-> f,
                      tool |-> tool, reply |-> reply]
        /\ ret' = get_structure_by_formula(tool, f, reply)
        /\ UNCHANGED runVars

NextMP == CallById \/ CallByFormula

SpecMP == InitMP /\ [][NextMP]_vars

\* the lookup went through to the database and the client raised nothing:
\* the credential is valid
Answered == lookup.method # "" /\ lookup.tool = GoodTool /\ ~lookup.reply.raises

\* the answer holds no entry, or no entry with a structure
NothingFound ==
    \A i \in DOMAIN lookup.reply.results :
        /\ lookup.reply.results[i].structure = NoStruct
        /\ lookup.reply.results[i].material_id # None

\* C5: a lookup that finds nothing while the credential is valid fails with
\* the not-found (resolution) error that names the identifier, never with the
\* invalid-key error; the invalid-key error is raised only when the client
\* itself rejected the key
C5_NotFoundIsNotCredential ==
    /\ Answered /\ NothingFound =>
          /\ ~ret.ok
          /\ ret.at = "failed_fetch"
          /\ Contains(ret.msg, lookup.arg)
    /\ ret.at = "invalid_key" =>
          lookup.reply.raises /\ lookup.reply.msg \in KeyRejections

\* the index of the entry with the lowest energy above hull, a missing metric
\* counting as +infinity, and the earliest of those with that metric
Best(results) ==
    CHOOSE i \in DOMAIN results :
        /\ \A j \in DOMAIN results : ~KeyLess(HullKey(results[j]), HullKey(results[i]))
        /\ \A j \in 1..(i - 1) : KeyLess(HullKey(results[i]), HullKey(results[j]))

ByFormulaAnswered == Answered /\ lookup.method = "get_structure_by_formula"

\* the entry that resolution by formula selects is the best one: it is
\* returned if it is complete, and the lookup fails if it is not
BestSelected ==
    LET b == lookup.reply.results[Best(lookup.reply.results)]
    IN  IF b.material_id # None /\ b.structure # NoStruct
        THEN ret = Return(b.structure, b.material_id)
        ELSE ~ret.ok

\* C7: resolution by formula selects the entry with the lowest energy above
\* hull, a missing metric counting as +infinity and ties going to the
\* earliest entry; an empty result list fails with the resolution error and
\* selects nothing
C7_LowestHullSelected ==
    ByFormulaAnswered =>
        IF lookup.reply.results = <<>>
        THEN ~ret.ok /\ ret.at = "failed_fetch" /\ ret.mp_id = None
        ELSE BestSelected

\* what the code does of C7: the selection, and some failure on an empty list
C7_SelectionOnly ==
    ByFormulaAnswered =>
        IF lookup.reply.results = <<>> THEN ~ret.ok /\ ret.mp_id = None
        ELSE BestSelected

(***************************************************************************)
(* SpecQuery: one call of run on every query over QueryLexicon, with no    *)
(* thickness override, against a database that finds the material or does  *)
(* not.                                                                    *)
(***************************************************************************)
MaxQueryPieces == 3

QueryLexicon ==
    {<<"S", "i", " ">>,
     <<"m", "p", "-", "1", " ">>,
     <<"m", "a", "k", "e", " ">>,
     <<"a", " ", "n", "i", "c", "e", " ", "s", "u", "r", "f", "a", "c", "e">>,
     <<"0", "x">>,
     <<"2", "x">>,
     <<"0">>,
     <<"2">>,
     <<"1">>}

NotFoundEnv == [tool |-> GoodTool, reply |-> Found(<<>>), has_slabs |-> TRUE]

QueryEnvs == {GoodEnv, NotFoundEnv}

InitQuery ==
    /\ \E q \in Texts(QueryLexicon, MaxQueryPieces), e \in QueryEnvs :
          Entry(q, NoThickness, e)
    /\ Fresh

\* the steps of one call of run
Run == Parse \/ Resolve \/ Thickness \/ Build \/ Supercell \/ Save

SpecQuery == InitQuery /\ [][Run]_vars

StructureSources == {"get_structure_by_mp_id", "get_structure_by_formula"}
SlabBuilders == {"pmg_slab_with_thickness_to_ase", "structure_to_atoms", "build_slab"}

\* C1: a query from which neither the material-ID extractor nor the formula
\* extractor gets a value makes run fail with the no-material error, and no
\* collaborator (structure source, slab builder, file writer) is ever called
C1_NoMaterialFailsFirst ==
    (Parsed /\ parse_mp_id(query) = None /\ parse_formula(query) = None) =>
        /\ pc = "failed"
        /\ error.type = "ValueError"
        /\ error.at = "no_material"
        /\ calls = <<>>
        /\ writes = {}

\* a run that failed on a query that names no material
C1_Witness ==
    /\ pc = "failed"
    /\ error.at = "no_material"
    /\ query # <<>>
    /\ parse_mp_id(query) = None
    /\ parse_formula(query) = None

NonPositiveSupercell == params.supercell[1] <= 0 \/ params.supercell[2] <= 0

\* C6: when the parsed supercell has a repeat that is not positive, the file
\* writer is never called and nothing is written; the run never gets past the
\* supercell replicator, whose call is the last one and raises the
\* validation error
C6_BadSupercellNeverWritten ==
    (Parsed /\ NonPositiveSupercell) =>
        /\ writes = {}
        /\ \A i \in DOMAIN calls : calls[i] # "save_outputs"
        /\ pc \notin {"save", "done"}
        /\ (\E i \in DOMAIN calls : calls[i] = "apply_supercell") =>
              /\ calls[Len(calls)] = "apply_supercell"
              /\ pc = "failed"
              /\ error.type = "ValueError"
              /\ error.at = "supercell"
              /\ error.msg = Msg_supercell

\* a run that built its slab and was rejected by the supercell replicator
C6_Witness ==
    /\ NonPositiveSupercell
    /\ pc = "failed"
    /\ error.at = "supercell"
    /\ \E i \in DOMAIN calls : calls[i] = "build_slab"

(***************************************************************************)
(* SpecThickness: one call of run on the query "Si" with every thickness   *)
(* override over ThicknessAlphabet, for a structure whose d_hkl is 2.0 and *)
(* for one whose d_hkl is 0.001.                                           *)
(***************************************************************************)
MaxThicknessLen == 4

ThicknessAlphabet == {"0", "1", "5", ".", "d", "a", "n", "-"}

ThicknessTexts ==
    Texts({<<c>> : c \in ThicknessAlphabet}, MaxThicknessLen)
        \cup {<<" ", "1", ".", "5", "D", " ">>, <<"1", ".", "5", " ", "d">>}

ThinBulk == Bulk(Str_Si, [n |-> 1, d |-> 1000])

ThicknessEnvs ==
    {GoodEnv, [GoodEnv EXCEPT !.reply = Found(<<Doc(Id_mp149, Metric(0), ThinBulk)>>)]}

InitThickness ==
    /\ \E t \in {NoThickness} \cup {[given |-> TRUE, text |-> s] : s \in ThicknessTexts},
          e \in ThicknessEnvs :
          Entry(Str_Si, t, e)
    /\ Fresh

SpecThickness == InitThickness /\ [][Run]_vars

\* the run has resolved its structure and gone through its thickness block
ThicknessStepDone == resolved # NoResolved /\ pc # "thickness"

\* s is written as a positive real: an unsigned decimal literal above zero
PlainPositiveReal(s) ==
    /\ IsDecimalLiteral(s)
    /\ Strip(s)[1] # "-"
    /\ FloatOf(s).n > 0

\* s is <factor>d, the factor a decimal literal
FactorForm(s) ==
    LET t == Lower(Strip(s))
    IN  /\ t # <<>>
        /\ t[Len(t)] = "d"
        /\ IsDecimalLiteral(SubSeq(t, 1, Len(t) - 1))

Factor(s) == LET t == Strip(s) IN FloatOf(SubSeq(t, 1, Len(t) - 1))

DecMax(x, y) == IF DecLess(x, y) THEN y ELSE x

Thick(v) == [set |-> TRUE, value |-> v]

\* the run failed in its thickness block, naming the override, before a slab
\* builder was called
ThicknessRejected ==
    /\ pc = "failed"
    /\ error.type = "ValueError"
    /\ error.at = "thickness"
    /\ Contains(error.msg, thickness.text)
    /\ \A i \in DOMAIN calls : calls[i] \notin SlabBuilders

\* C8: an override that is a plain positive real gives that value as the
\* effective thickness, an override <factor>d gives max(0.01, factor * d_hkl),
\* and every other override makes run fail with the error that names the
\* override, no slab builder being called
C8_ThicknessOverride ==
    (thickness.given /\ ThicknessStepDone) =>
        IF PlainPositiveReal(thickness.text)
        THEN eff_thickness = Thick(FloatOf(thickness.text))
        ELSE IF FactorForm(thickness.text)
        THEN eff_thickness =
                 Thick(DecMax(Hundredth,
                              DecMul(Factor(thickness.text), resolved.struct.dhkl)))
        ELSE ThicknessRejected

\* what holds of C8: as above for an override that is a decimal literal of
\* either sign, zero included, or <factor>d, and the failure for an override
\* that float() does not accept with or without a final d
C8_DecimalOverrides ==
    (thickness.given /\ ThicknessStepDone) =>
        IF IsDecimalLiteral(thickness.text)
        THEN eff_thickness = Thick(FloatOf(thickness.text))
        ELSE IF FactorForm(thickness.text)
        THEN eff_thickness =
                 Thick(DecMax(Hundredth,
                              DecMul(Factor(thickness.text), resolved.struct.dhkl)))
        ELSE \/ ThicknessRejected
             \/ \E i \in 1..(Len(thickness.text) - 2) :
                   Lower(SubSeq(thickness.text, i, i + 2)) = Str_nan

(***************************************************************************)
(* Spec: a sequence of at most MaxRuns calls of run into the same output   *)
(* directory, each on one of RunQueries with or without a thickness        *)
(* override; writes keeps every file write of the sequence.                *)
(***************************************************************************)
MaxRuns == 2

RunMaterials ==
    {<<"m", "p", "-", "1">>,
     <<"S", "i">>}

RunClauses ==
    {<<>>,
     <<" ", "(", "1", "1", "0", ")">>,
     <<" ", "2", " ", "l", "a", "y", "e", "r", "s">>,
     <<" ", "v", "a", "c", "u", "u", "m", " ", "1", ".", "2">>,
     <<" ", "v", "a", "c", "u", "u", "m", " ", "1", ".", "4">>,
     <<" ", "v", "a", "c", "u", "u", "m", " ", "1", ".", "5">>,
     <<" ", "v", "a", "c", "u", "u", "m", " ", "2", ".", "5">>,
     <<" ", "2", "x", "1">>,
     <<" ", "0", "x", "1">>}

RunQueries == {m \o c : m \in RunMaterials, c \in RunClauses}

RunThicknesses == {NoThickness, [given |-> TRUE, text |-> <<"2">>]}

Init ==
    /\ \E q \in RunQueries, t \in RunThicknesses : Entry(q, t, GoodEnv)
    /\ Fresh

\* the next call of run, after the current one has returned or raised
NewRun ==
    /\ pc \in {"done", "failed"}
    /\ nruns < MaxRuns
    /\ nruns' = nruns + 1
    /\ \E q \in RunQueries, t \in RunThicknesses :
          /\ query' = q
          /\ thickness' = t
    /\ pc' = "parse"
    /\ params' = NoParams
    /\ resolved' = NoResolved
    /\ eff_thickness' = NoEff
    /\ slab' = NoSlab
    /\ calls' = <<>>
    /\ error' = NoError
    /\ UNCHANGED <<env, writes, lookup, ret>>

Next == Parse \/ Resolve \/ Thickness \/ Build \/ Supercell \/ Save \/ NewRun

Spec == Init /\ [][Next]_vars

\* what determines the slab of a write: the resolved material, the parsed
\* parameters and the effective thickness
SlabInputs(w) == <<w.mp_id, w.params, w.thickness>>

\* what the base name is made of
NameInputs(w) ==
    <<w.mp_id, w.params.miller, w.params.layers,
      RoundHalfEven(w.params.vacuum), w.params.supercell>>

\* C9 as claimed: two writes of runs that differ in a slab-determining input,
\* the thickness override and the vacuum included, never have the same path
C9_FreshPaths ==
    \A w1, w2 \in writes : w1.path = w2.path => SlabInputs(w1) = SlabInputs(w2)

\* C9 as amended: the path of a write is a function of the output directory,
\* the format and the resolved material ID, Miller indices, layer count,
\* vacuum rounded to the nearest integer and supercell; two writes have the
\* same path exactly when they agree on all of these, so that runs that
\* differ only in the thickness override or in vacuum values with the same
\* rounding write to the same paths
C9_PathsByNameInputs ==
    \A w1, w2 \in writes :
        w1.path = w2.path <=>
            (w1.format = w2.format /\ NameInputs(w1) = NameInputs(w2))

\* two successful runs, one with a thickness override and one without, whose
\* writes have the same path
C9_Witness ==
    /\ nruns = 2
    /\ pc = "done"
    /\ \E w1, w2 \in writes :
          /\ w1.path = w2.path
          /\ w1.thickness # w2.thickness

(***************************************************************************)
(* SpecName: one call of run on each of NameQueries, the database          *)
(* answering a search with one entry whose material_id is any text of up   *)
(* to MaxIdLen characters of IdAlphabet.                                   *)
(***************************************************************************)
MaxIdLen == 3

IdAlphabet == {"m", "-", "1", " ", "/", "\\", "Ang"}

NameIds == Texts({<<c>> : c \in IdAlphabet}, MaxIdLen) \cup {Id_mp149}

NameQueries ==
    {<<"S", "i">>,
     <<"S", "i", " ", "(", "-", "1", " ", "1", " ", "1", ")">>,
     <<"S", "i", " ", "(", "1", " ", "0", " ", "-", "2", "0", ")">>,
     <<"S", "i", " ", "2", " ", "l", "a", "y", "e", "r", "s">>,
     <<"S", "i", " ", "v", "a", "c", "u", "u", "m", " ", "0", ".", "5">>,
     <<"S", "i", " ", "v", "a", "c", "u", "u", "m", " ", "1", ".", "5">>,
     <<"S", "i", " ", "v", "a", "c", "u", "u", "m", " ", "2", ".", "5">>,
     <<"S", "i", " ", "1", "2", " ", "Ang", " ", "v", "a", "c", "u", "u", "m">>,
     <<"S", "i", " ", "2", "x", "1", "3">>,
     <<"m", "p", "-", "1", "4", "9", " ", "(", "1", "0", "0", ")">>,
     <<"m", "p", "-", "1", " ", "(", "0", " ", "-", "1", " ", "0", ")", " ", "3", "x", "1">>}

InitName ==
    /\ \E q \in NameQueries, id \in NameIds :
          Entry(q, NoThickness,
                [GoodEnv EXCEPT !.reply = Found(<<Doc(id, Metric(0), SiBulk)>>)])
    /\ Fresh

SpecName == InitName /\ [][Run]_vars

\* the characters a base name must not hold
Unsafe == {" ", "/", "\\", "Ang"}

\* the base names of the files written: a .cif path without the output
\* directory and the extension
WrittenBaseNames ==
    {SubSeq(w.path, Len(DefaultOutdir) + 2, Len(w.path) - Len(Str_cif)) :
        w \in {x \in writes : x.format = "cif"}}

\* a Miller component as the name writes it
Component(x) == IF x < 0 THEN <<"m">> \o NatToStr(0 - x) ELSE NatToStr(x)

\* v is an integer nearest to the decimal x
Nearest(v, x) ==
    LET diff == v * x.d - x.n
    IN  2 * (IF diff < 0 THEN 0 - diff ELSE diff) <= x.d

\* what follows the material in the name, for the rounded vacuum v
NameTail(v) ==
    <<"_", "h", "k", "l">> \o Component(params.miller[1])
    \o <<"_">> \o Component(params.miller[2])
    \o <<"_">> \o Component(params.miller[3])
    \o <<"_", "L">> \o NatToStr(params.layers)
    \o <<"_", "V">> \o NatToStr(v)
    \o <<"_", "S">> \o NatToStr(params.supercell[1])
    \o <<"x">> \o NatToStr(params.supercell[2])

Name_mp149_defaults ==
    <<"m", "p", "-", "1", "4", "9", "_", "h", "k", "l", "1", "_", "0", "_", "0",
      "_", "L", "6", "_", "V", "1", "5", "_", "S", "1", "x", "1">>

\* C11: the base name of a run is the resolved material ID, cleaned, followed
\* by _hkl<h>_<k>_<l>_L<layers>_V<vacuum rounded to a nearest integer>_S<nx>x<ny>
\* with a negative Miller component -n written m<n>; an ID without a space,
\* slash, backslash or angstrom symbol is written as it is; the name holds
\* none of these characters; mp-149, (1, 0, 0), 6, 15.0, (1, 1) give
\* mp-149_hkl1_0_0_L6_V15_S1x1
C11_BaseNameFormat ==
    pc = "done" =>
        \A name \in WrittenBaseNames :
            /\ \A i \in DOMAIN name : name[i] \notin Unsafe
            /\ \E v \in 0..(params.vacuum.n \div params.vacuum.d + 1) :
                  /\ Nearest(v, params.vacuum)
                  /\ \E front \in {SubSeq(name, 1, k) : k \in 0..Len(name)} :
                        /\ name = front \o NameTail(v)
                        /\ Len(front) <= Len(resolved.mp_id)
                        /\ (\A i \in DOMAIN resolved.mp_id :
                               resolved.mp_id[i] \notin Unsafe)
                              => front = resolved.mp_id
            /\ (/\ resolved.mp_id = Id_mp149
                /\ params.miller = <<1, 0, 0>>
                /\ params.layers = 6
                /\ params.vacuum = [n |-> 15, d |-> 1]
                /\ params.supercell = <<1, 1>>) => name = Name_mp149_defaults

\* a finished run with a negative Miller component whose material ID, from
\* the database, holds a slash and an angstrom symbol
C11_Witness ==
    /\ pc = "done"
    /\ WrittenBaseNames # {}
    /\ params.miller[1] < 0
    /\ resolved.formula # resolved.mp_id
    /\ \E i, j \in DOMAIN resolved.mp_id :
          resolved.mp_id[i] = "/" /\ resolved.mp_id[j] = "Ang"

(***************************************************************************)
(* SpecFormula: parse_query on every text over FormulaLexicon, none of     *)
(* which holds a material ID, so that formula is what parse_formula gives. *)
(***************************************************************************)
MaxFormulaPieces == 3

FormulaLexicon ==
    {<<"(">>,
     <<"(", "1", "1", "1", ")", " ">>,
     <<"O", " ">>,
     <<"S", "i", "(">>,
     <<"S", "i">>,
     <<"M", "a", "k", "e">>,
     <<"s", "l", "a", "b", " ">>,
     <<"Q", "q">>,
     <<"2">>,
     <<" ">>}

InitFormula ==
    /\ \E q \in Texts(FormulaLexicon, MaxFormulaPieces) : Entry(q, NoThickness, GoodEnv)
    /\ Fresh

SpecFormula == InitFormula /\ [][Parse]_vars

\* stopword-only words, each followed by whitespace
StopwordPrefixes ==
    {<<"a", " ">>,
     <<"C", "r", "e", "a", "t", "e", " ", "a", " ">>,
     <<"m", "a", "k", "e", " ", " ", "t", "h", "e", " ">>}

\* tok stands in text
OccursIn(tok, text) ==
    \E i \in 1..(Len(text) - Len(tok) + 1) : SubSeq(text, i, i + Len(tok) - 1) = tok

\* the formula is null or a token of the text that passes the validator and
\* is not a stopword in any case
ReturnedTokenValid ==
    params.formula # None =>
        /\ OccursIn(params.formula, query)
        /\ _validate_formula(params.formula)
        /\ Lower(params.formula) \notin STOPWORDS

\* C12: parse_formula returns null or a token of the text that passes the
\* formula validator and is not a stopword in any case, and the text with
\* stopword-only words put before it gives the same result
C12_FormulaExtraction ==
    (Parsed /\ params.mp_id = None) =>
        /\ ReturnedTokenValid
        /\ \A w \in StopwordPrefixes : parse_formula(w \o query) = params.formula

\* what holds of C12: the token returned is valid and no stopword
C12_ReturnedTokenValid == (Parsed /\ params.mp_id = None) => ReturnedTokenValid

====
